---------------------------- MODULE Spec2Model ----------------------------
(***************************************************************************)
(* A model of the diffusion core of diffspeak:                             *)
(*   - Collator.collate           (datasets/dataset.py)                    *)
(*   - LitDiffWaveModel.forward   (lightning_classes/lightningmodule_model)*)
(*   - LitDiffWaveModel.training_step / validation_step / test_step        *)
(*                                                                         *)
(* Python values are modelled as records carrying their type:              *)
(*   a tensor / ndarray is [type, dims, data]; its data is the flat list   *)
(*   of its elements along the time axis.  An audio clip of L samples      *)
(*   holds the samples 1..L (sample i is the i-th sample of the clip), so   *)
(*   that a window is recognised by its contents and the padding value 0    *)
(*   is no sample.  A spectrogram of F frames holds the frames 1..F.        *)
(* A Python exception ends the call: the result of a call is either         *)
(*   [status |-> "returned", ...] or [status |-> "raised", error, line].    *)
(***************************************************************************)
EXTENDS Integers, Sequences, FiniteSets, TLC

VARIABLES
    cfg,        \* the configuration object (self.cfg), fixed for the process
    model,      \* the denoiser object (self.model): its schedule tables
    op,         \* the call that ran last and has not been handed back ("idle": none)
    args,       \* the arguments that operation was called with
    minibatch,  \* collate's list of records, as the call left it (mutated in place)
    result      \* what the operation returned or raised

vars == <<cfg, model, op, args, minibatch, result>>

---------------------------------------------------------------------------
(* Bounds of the model *)

MaxClipLen == 4      \* longest audio clip, in samples
MaxFrames == 3       \* longest spectrogram, in frames
MaxRecords == 2      \* largest minibatch handed to collate
MaxAudioLen == 2     \* largest cfg.datamodule.params.audio_len
MaxCropFrames == 2   \* largest cfg.datamodule.params.crop_mel_frames
MaxHop == 2          \* largest hop_samples
MaxSchedule == 2     \* longest noise schedule
MaxBatch == 2        \* largest batch dimension of a stacked batch
NumBins == 1         \* feature bins of a spectrogram frame

---------------------------------------------------------------------------
(* Python values *)

None == [type |-> "NoneType"]
Absent == [type |-> "absent"]          \* a key that is not in a dict

Tensor(dims, data) == [type |-> "Tensor", dims |-> dims, data |-> data]
NdArray(dims, data) == [type |-> "ndarray", dims |-> dims, data |-> data]

Returned(v) == [status |-> "returned", value |-> v]
Raised(e, l) == [status |-> "raised", error |-> e, line |-> l]

Min(a, b) == IF a < b THEN a ELSE b
Max(a, b) == IF a > b THEN a ELSE b

Iota(n) == [i \in 1..n |-> i]
Zeros(n) == [i \in 1..n |-> 0]

HasKey(d, k) == d[k].type # "absent"

\* x[start:end] of a 1-D tensor, or of the first axis of a 2-D array:
\* Python clips both ends of the slice to the length.
PySlice(t, start, end) ==
    LET n == Len(t.data)
        a == Min(start, n)
        b == Max(a, Min(end, n))
        d == SubSeq(t.data, a + 1, b)
    IN  [t EXCEPT !.dims = [t.dims EXCEPT ![1] = b - a], !.data = d]

RECURSIVE DropOnes(_)
DropOnes(dims) ==
    IF dims = <<>> THEN <<>>
    ELSE IF Head(dims) = 1 THEN DropOnes(Tail(dims))
    ELSE <<Head(dims)>> \o DropOnes(Tail(dims))

\* torch.squeeze: every dimension of size 1 is removed, so a 1-D tensor
\* with one element becomes a 0-d tensor.
squeeze(t) == [t EXCEPT !.dims = DropOnes(t.dims)]

\* len(tensor): the size of the first dimension; a 0-d tensor has none
\* (TypeError: len() of a 0-d tensor).
HasLen(t) == t.dims # <<>>
PyLen(t) == t.dims[1]

\* F.pad(t, (0, n), mode="constant", value=0) of a 1-D tensor.
pad(t, n) == Tensor(<<t.dims[1] + n>>, t.data \o Zeros(n))

\* array.T of a 2-D array [frames, bins]: the time axis becomes the last.
Transpose(t) == [t EXCEPT !.dims = <<t.dims[2], t.dims[1]>>]

---------------------------------------------------------------------------
(* datasets/dataset.py: the records and Collator.collate *)

\* ConditionalDataset.__getitem__: the audio is a torch tensor (torchaudio.load),
\* the spectrogram the transposed numpy array np.load returned.
ConditionalItem(samples, frames) ==
    [audio |-> Tensor(<<samples>>, Iota(samples)),
     spectrogram |-> NdArray(<<frames, NumBins>>, Iota(frames))]

\* The same record with the spectrogram already converted to a torch tensor
\* (a caller that feeds collate tensors throughout).
TensorItem(samples, frames) ==
    [audio |-> Tensor(<<samples>>, Iota(samples)),
     spectrogram |-> Tensor(<<frames, NumBins>>, Iota(frames))]

\* UnconditionalDataset.__getitem__
UnconditionalItem(samples) ==
    [audio |-> Tensor(<<samples>>, Iota(samples)), spectrogram |-> None]

\* del record["spectrogram"]; del record["audio"]
DeleteKeys(record) == [audio |-> Absent, spectrogram |-> Absent]

Step(status, record, error, line) ==
    [status |-> status, record |-> record, error |-> error, line |-> line]

\* The minimum-length filter of the unconditional branch (line 65).
TooShortAudio(record, c) ==
    PyLen(record.audio) < c.datamodule.params.audio_len

\* The minimum-length filter of the conditional branch (lines 83-86).
TooShortSpectrogram(record, c) ==
    PyLen(record.spectrogram) < c.datamodule.params.crop_mel_frames

\* The inclusive upper end of random.randint(0, hi) for a record that is kept.
MaxStart(record, c) ==
    IF c.datamodule.params.unconditional
    THEN record.audio.dims[Len(record.audio.dims)] - c.datamodule.params.audio_len
    ELSE record.spectrogram.dims[1] - c.datamodule.params.crop_mel_frames

\* Lines 74-80 and 101-109: slice, squeeze, then pad to end - start.  The
\* record holds the squeezed slice when len() of it raises.
CropAudio(record, start, end, line) ==
    LET sliced == squeeze(PySlice(record.audio, start, end))
        r1 == [record EXCEPT !.audio = sliced]
    IN  IF ~HasLen(sliced)
        THEN Step("raised", r1, "TypeError", line)
        ELSE Step("ok",
                  [r1 EXCEPT !.audio = pad(sliced, (end - start) - PyLen(sliced))],
                  "", 0)

\* One pass of the loop body of collate (lines 62-109) over one record;
\* start is the value random.randint returns for it.
process_record(record, start, c) ==
    IF c.datamodule.params.unconditional
    THEN IF TooShortAudio(record, c)
         THEN Step("ok", DeleteKeys(record), "", 0)
         ELSE CropAudio(record, start, start + c.datamodule.params.audio_len, 77)
    ELSE IF TooShortSpectrogram(record, c)
         THEN Step("ok", DeleteKeys(record), "", 0)
         ELSE LET end == start + c.datamodule.params.crop_mel_frames
                  samples_per_frame == c.datamodule.preprocessing.hop_samples
                  r1 == [record EXCEPT !.spectrogram =
                            Transpose(PySlice(record.spectrogram, start, end))]
              IN  CropAudio(r1, start * samples_per_frame,
                            end * samples_per_frame, 106)

\* for record in minibatch: ... ; the loop stops at the first exception and
\* the records before it stay as the loop left them.
RECURSIVE collate_loop(_, _, _, _)
collate_loop(mb, starts, i, c) ==
    IF i > Len(mb) THEN [records |-> mb, status |-> "ok", error |-> "", line |-> 0]
    ELSE LET r == process_record(mb[i], starts[i], c)
             mb1 == [mb EXCEPT ![i] = r.record]
         IN  IF r.status = "raised"
             THEN [records |-> mb1, status |-> "raised",
                   error |-> r.error, line |-> r.line]
             ELSE collate_loop(mb1, starts, i + 1, c)

\* [record[key] for record in minibatch if key in record]
Kept(mb, key) ==
    LET has == SelectSeq(mb, LAMBDA r : HasKey(r, key))
    IN  [i \in 1..Len(has) |-> has[i][key]]

\* torch.stack(list, dim=0) as called on line `line`: the list must be
\* non-empty, of torch tensors, all of one shape.
stack(list, line) ==
    IF list = <<>> THEN Raised("RuntimeError", line)
    ELSE IF \E i \in 1..Len(list) : list[i].type # "Tensor"
    THEN Raised("TypeError", line)
    ELSE IF \E i \in 1..Len(list) : list[i].dims # list[1].dims
    THEN Raised("RuntimeError", line)
    ELSE Returned(Tensor(<<Len(list)>> \o list[1].dims,
                         [i \in 1..Len(list) |-> list[i].data]))

\* Collator.collate(minibatch); starts[i] is the offset drawn for record i.
\* The value is [records, result]: the list as the call left it, and what
\* the call returned or raised.
collate(mb, starts, c) ==
    LET lp == collate_loop(mb, starts, 1, c)
        audio == stack(Kept(lp.records, "audio"), 111)
        spectrogram == stack(Kept(lp.records, "spectrogram"), 120)
    IN  [records |-> lp.records,
         result |->
            IF lp.status = "raised" THEN Raised(lp.error, lp.line)
            ELSE IF audio.status = "raised" THEN audio
            ELSE IF c.datamodule.params.unconditional
            THEN Returned([audio |-> audio.value, spectrogram |-> None])
            ELSE IF spectrogram.status = "raised" THEN spectrogram
            ELSE Returned([audio |-> audio.value,
                           spectrogram |-> spectrogram.value])]

---------------------------------------------------------------------------
(* The configuration and the denoiser object *)

Config(unconditional, audio_len, crop_mel_frames, hop_samples, inference_noise) ==
    [datamodule |->
        [params |-> [unconditional |-> unconditional,
                     audio_len |-> audio_len,
                     crop_mel_frames |-> crop_mel_frames],
         preprocessing |-> [hop_samples |-> hop_samples]],
     model |-> [params |-> [unconditional |-> unconditional,
                            hop_samples |-> hop_samples]],
     inference_noise |-> inference_noise]

List(data) == [type |-> "list", data |-> data]

\* self.model: the attributes the module reads are noise_schedule (the betas,
\* here numbered 1..S) and noise_level (the table of alpha_cum, one per step).
Model(S) == [noise_schedule |-> Iota(S), noise_level |-> Iota(S)]

\* An inference schedule that differs from every native one.
FastSchedule == List(<<0>>)

InferenceNoises(m) == {None, List(m.noise_schedule), FastSchedule}

\* One experiment configuration sets both the datamodule's and the model's
\* keys; a key the mode never reads is left at 1.
Configs(m) ==
    {Config(TRUE, a, 1, 1, inf) :
        a \in 1..MaxAudioLen, inf \in InferenceNoises(m)}
    \cup
    {Config(FALSE, 1, k[1], k[2], inf) :
        k \in (1..MaxCropFrames) \X (1..MaxHop), inf \in InferenceNoises(m)}

---------------------------------------------------------------------------
(* lightning_classes/lightningmodule_model.py: LitDiffWaveModel.forward *)

Dict(audio, spectrogram, lang) ==
    [type |-> "dict", audio |-> audio, spectrogram |-> spectrogram, lang |-> lang]

\* A local variable that no statement has assigned yet.
Unbound == [type |-> "unbound"]

\* torch.randn(*dims) / torch.randn_like: the elements are Gaussian draws, of
\* which the model keeps only that they are not confined to [-1, 1].
randn(dims) == Tensor(dims, "gaussian")

\* torch.clamp(audio, -1.0, 1.0): every element ends in [-1, 1].
clamp(audio) == [audio EXCEPT !.data = "clamped"]

\* What a call of forward has done so far, and how it ended.
Outcome(status, value, error, line, tr) ==
    [status |-> status, value |-> value, error |-> error, line |-> line,
     T |-> tr.T, audio_init |-> tr.audio_init, self_calls |-> tr.self_calls,
     denoiser_calls |-> tr.denoiser_calls, noise_draws |-> tr.noise_draws,
     iterations |-> tr.iterations]

NoTrace ==
    [T |-> None, audio_init |-> Unbound, self_calls |-> <<>>,
     denoiser_calls |-> <<>>, noise_draws |-> 0, iterations |-> 0]

\* getattr(self.model, name): torch.nn.Module raises AttributeError for a
\* name the object does not have.
HasAttr(m, name) == name \in DOMAIN m

\* LitDiffWaveModel.adjust_Ts: the body is `pass`, the value is None.
adjust_Ts(inference_noise) == None

\* The condition of lines 37-39, once both operands exist.
DiffersFromNative(inference_noise, m) ==
    inference_noise.data # m.noise_shedule

\* Lines 42-50: the initial audio.  In unconditional mode no statement
\* assigns audio.
InitialAudio(spectrogram, c) ==
    IF c.model.params.unconditional THEN Unbound
    ELSE LET sp == IF Len(spectrogram.dims) = 2
                   THEN [spectrogram EXCEPT !.dims = <<1>> \o spectrogram.dims]
                   ELSE spectrogram
         IN  randn(<<sp.dims[1],
                     c.model.params.hop_samples * sp.dims[Len(sp.dims)]>>)

\* Lines 42-46: the spectrogram the loop passes on.
Batched(spectrogram, c) ==
    IF ~c.model.params.unconditional /\ Len(spectrogram.dims) = 2
    THEN [spectrogram EXCEPT !.dims = <<1>> \o spectrogram.dims]
    ELSE spectrogram

RECURSIVE forward(_, _, _)
RECURSIVE reverse_loop(_, _, _, _, _, _)

\* for n in range(len(alpha_train) - 1, -1, -1): lines 52-66, then line 68.
\* The call on line 56 is self(audio, torch.tensor([T[n]]), spectrogram):
\* it calls this module, that is forward, with the audio tensor as x.
reverse_loop(n, audio, spectrogram, c, m, tr) ==
    IF n < 0
    THEN IF audio.type = "unbound"
         THEN Outcome("raised", None, "UnboundLocalError", 68, tr)
         ELSE Outcome("returned", audio, "", 0, tr)
    ELSE IF audio.type = "unbound"
    THEN Outcome("raised", None, "UnboundLocalError", 56, tr)
    ELSE IF tr.T.type = "NoneType"
    THEN Outcome("raised", None, "TypeError", 56, tr)
    ELSE LET tr1 == [tr EXCEPT !.self_calls = Append(@, tr.T.data[n + 1])]
             r == forward(audio, c, m)
         IN  IF r.status = "raised"
             THEN Outcome("raised", None, r.error, r.line, tr1)
             ELSE LET updated == [audio EXCEPT !.data = "unbounded"]
                      tr2 == [tr1 EXCEPT
                                !.noise_draws = IF n > 0 THEN @ + 1 ELSE @,
                                !.iterations = @ + 1]
                  IN  reverse_loop(n - 1, clamp(updated), spectrogram, c, m, tr2)

\* LitDiffWaveModel.forward(x): lines 26-68.
forward(x, c, m) ==
    IF x.type # "dict" THEN Outcome("raised", None, "IndexError", 28, NoTrace)
    ELSE IF ~HasKey(x, "spectrogram")
    THEN Outcome("raised", None, "KeyError", 28, NoTrace)
    ELSE IF ~HasKey(x, "lang")
    THEN Outcome("raised", None, "KeyError", 29, NoTrace)
    ELSE
    LET spectrogram == x.spectrogram
        S == Len(m.noise_schedule)
        identity == List([i \in 1..S |-> i - 1])
        tr0 == [NoTrace EXCEPT !.T = identity]
    IN  IF c.inference_noise.type # "NoneType" /\ ~HasAttr(m, "noise_shedule")
        THEN Outcome("raised", None, "AttributeError", 38, tr0)
        ELSE
        LET T == IF c.inference_noise.type # "NoneType"
                    /\ DiffersFromNative(c.inference_noise, m)
                 THEN adjust_Ts(c.inference_noise)
                 ELSE identity
            tr1 == [tr0 EXCEPT !.T = T]
        IN  IF ~c.model.params.unconditional /\ spectrogram.type = "NoneType"
            THEN Outcome("raised", None, "AttributeError", 44, tr1)
            ELSE
            LET audio == InitialAudio(spectrogram, c)
                tr2 == [tr1 EXCEPT !.audio_init = audio]
            IN  reverse_loop(S - 1, audio, Batched(spectrogram, c), c, m, tr2)

\* LitDiffWaveModel.predict_step(batch, batch_idx)
predict_step(batch, c, m) == forward(batch, c, m)

---------------------------------------------------------------------------
(* LitDiffWaveModel.training_step, validation_step, test_step *)

\* A sampler whose upper end is inclusive, as random.randint's is.
randint_inclusive(low, high) == low..high

\* torch.randint(low, high, [N]): each element is in [low, high).
randint(low, high) == low..(high - 1)

\* Lines 94-102 (and 127-135, 157-165): t, the table lookup, the one
\* denoiser call.  Indexing the table past its end raises IndexError.
diffusion_step(batch, t, m, line) ==
    LET N == batch.audio.dims[1]
    IN  IF \E i \in 1..N : t[i] >= Len(m.noise_level) \/ t[i] < -Len(m.noise_level)
        THEN [status |-> "raised", error |-> "IndexError", line |-> line + 1,
              t |-> t, lookups |-> <<>>, denoiser_calls |-> <<>>]
        ELSE [status |-> "returned", error |-> "", line |-> 0,
              t |-> t,
              lookups |-> [i \in 1..N |-> t[i]],
              denoiser_calls |->
                 <<[audio |-> [batch.audio EXCEPT !.data = "noisy"],
                    t |-> t,
                    spectrogram |-> batch.spectrogram]>>]

training_step(batch, t, m) == diffusion_step(batch, t, m, 96)
validation_step(batch, t, m) == diffusion_step(batch, t, m, 129)
test_step(batch, t, m) == diffusion_step(batch, t, m, 159)

---------------------------------------------------------------------------
(* The state machine *)

Init ==
    /\ model \in {Model(S) : S \in 1..MaxSchedule}
    /\ cfg \in Configs(model)
    /\ op = "idle"
    /\ args = None
    /\ minibatch = <<>>
    /\ result = None

\* The records a dataset of the configured mode yields.
Items(c, kind) ==
    IF c.datamodule.params.unconditional
    THEN {UnconditionalItem(l) : l \in 0..MaxClipLen}
    ELSE IF kind = "ndarray"
    THEN {ConditionalItem(l, f) : l \in 0..MaxClipLen, f \in 0..MaxFrames}
    ELSE {TensorItem(l, f) : l \in 0..MaxClipLen, f \in 0..MaxFrames}

Dropped(record, c) ==
    IF c.datamodule.params.unconditional
    THEN TooShortAudio(record, c)
    ELSE TooShortSpectrogram(record, c)

\* random.randint(0, hi) is drawn only for a record that is kept.
Starts(record, c) ==
    IF Dropped(record, c) THEN {0} ELSE 0..MaxStart(record, c)

\* A data loader worker calls collate on a list of records.
Collate ==
    /\ op = "idle"
    /\ \E n \in 0..MaxRecords, kind \in {"ndarray", "Tensor"} :
      \E mb \in [1..n -> Items(cfg, kind)] :
        \E starts \in [1..n -> 0..(MaxClipLen + MaxFrames)] :
          /\ \A i \in 1..n : starts[i] \in Starts(mb[i], cfg)
          /\ LET r == collate(mb, starts, cfg)
             IN  /\ op' = "collate"
                 /\ args' = [minibatch |-> mb, starts |-> starts]
                 /\ minibatch' = r.records
                 /\ result' = r.result
          /\ UNCHANGED <<cfg, model>>

\* The dicts forward is called with: the spectrogram is None, a 2-D
\* [bins, frames] or a 3-D [batch, bins, frames] tensor; the key "lang"
\* may be missing.
Spectrograms ==
    {None}
    \cup {Tensor(<<NumBins, f>>, "frames") : f \in 1..MaxFrames}
    \cup {Tensor(<<b, NumBins, f>>, "frames") : b \in 1..MaxBatch, f \in 1..MaxFrames}

Forward ==
    /\ op = "idle"
    /\ \E sp \in Spectrograms, lang \in {Absent, [type |-> "str"]} :
         LET x == Dict(Absent, sp, lang)
         IN  /\ op' = "forward"
             /\ args' = [x |-> x]
             /\ result' = forward(x, cfg, model)
    /\ UNCHANGED <<cfg, model, minibatch>>

\* The batches collate returns: stacked audio [N, L], and the stacked
\* spectrogram [N, bins, frames] or None.
Batches ==
    {Dict(Tensor(<<n, l>>, "audio"), sp, Absent) :
        n \in 1..MaxBatch, l \in 1..MaxClipLen,
        sp \in {None} \cup {Tensor(<<n2, NumBins, f>>, "frames") :
                              n2 \in 1..MaxBatch, f \in 1..MaxCropFrames}}

BatchesOf(c) ==
    {b \in Batches :
        IF c.datamodule.params.unconditional
        THEN b.spectrogram.type = "NoneType"
        ELSE b.spectrogram.type = "Tensor"
             /\ b.spectrogram.dims[1] = b.audio.dims[1]}

PredictStep ==
    /\ op = "idle"
    /\ \E batch \in BatchesOf(cfg) :
         /\ op' = "predict_step"
         /\ args' = [x |-> batch]
         /\ result' = predict_step(batch, cfg, model)
    /\ UNCHANGED <<cfg, model, minibatch>>

Timesteps(batch, m) ==
    [1..batch.audio.dims[1] -> randint(0, Len(m.noise_schedule))]

TrainingStep ==
    /\ op = "idle"
    /\ \E batch \in BatchesOf(cfg) : \E t \in Timesteps(batch, model) :
         /\ op' = "training_step"
         /\ args' = [batch |-> batch]
         /\ result' = training_step(batch, t, model)
    /\ UNCHANGED <<cfg, model, minibatch>>

ValidationStep ==
    /\ op = "idle"
    /\ \E batch \in BatchesOf(cfg) : \E t \in Timesteps(batch, model) :
         /\ op' = "validation_step"
         /\ args' = [batch |-> batch]
         /\ result' = validation_step(batch, t, model)
    /\ UNCHANGED <<cfg, model, minibatch>>

TestStep ==
    /\ op = "idle"
    /\ \E batch \in BatchesOf(cfg) : \E t \in Timesteps(batch, model) :
         /\ op' = "test_step"
         /\ args' = [batch |-> batch]
         /\ result' = test_step(batch, t, model)
    /\ UNCHANGED <<cfg, model, minibatch>>

\* The caller takes the result (or the exception) and the process is ready
\* for the next call.
Finish ==
    /\ op # "idle"
    /\ op' = "idle"
    /\ args' = None
    /\ minibatch' = <<>>
    /\ result' = None
    /\ UNCHANGED <<cfg, model>>

Next ==
    \/ Collate
    \/ Forward
    \/ PredictStep
    \/ TrainingStep
    \/ ValidationStep
    \/ TestStep
    \/ Finish

Spec == Init /\ [][Next]_vars

NextTraining ==
    \/ TrainingStep
    \/ ValidationStep
    \/ TestStep
    \/ Finish

\* The training loop alone: the three step methods on collated batches.
SpecTraining == Init /\ [][NextTraining]_vars

---------------------------------------------------------------------------
(* What the specification says of a collate call, stated on the call's    *)
(* arguments: args.minibatch is the list as passed, args.starts the       *)
(* offsets drawn.                                                         *)

Samples(record) == record.audio.dims[1]
Frames(record) == record.spectrogram.dims[1]

IsShort(record) ==
    IF cfg.datamodule.params.unconditional
    THEN Samples(record) < cfg.datamodule.params.audio_len
    ELSE Frames(record) < cfg.datamodule.params.crop_mel_frames

\* The indices of the records that pass the filter, in input order.
Survivors(mb) == SelectSeq(Iota(Len(mb)), LAMBDA i : ~IsShort(mb[i]))

\* Samples [from, from + len) of the clip, zeros past its end.
Window(record, from, len) ==
    [i \in 1..len |-> IF from + i <= Samples(record) THEN from + i ELSE 0]

ExpectedAudio(record, s) ==
    IF cfg.datamodule.params.unconditional
    THEN Window(record, s, cfg.datamodule.params.audio_len)
    ELSE Window(record, s * cfg.datamodule.preprocessing.hop_samples,
                cfg.datamodule.params.crop_mel_frames
                    * cfg.datamodule.preprocessing.hop_samples)

ExpectedFrames(s) == [i \in 1..cfg.datamodule.params.crop_mel_frames |-> s + i]

\* C1: a collate call on a minibatch with at least one record of the
\* required length returns a batch that holds exactly one window per such
\* record, in input order, and nothing for a record that is too short.
C1_OneWindowPerSurvivor ==
    (op = "collate" /\ Survivors(args.minibatch) # <<>>) =>
        LET idx == Survivors(args.minibatch)
        IN  /\ result.status = "returned"
            /\ result.value.audio.dims[1] = Len(idx)
            /\ result.value.audio.data =
                  [j \in 1..Len(idx) |->
                      ExpectedAudio(args.minibatch[idx[j]], args.starts[idx[j]])]
            /\ (~cfg.datamodule.params.unconditional =>
                  /\ result.value.spectrogram.dims[1] = Len(idx)
                  /\ result.value.spectrogram.data =
                        [j \in 1..Len(idx) |-> ExpectedFrames(args.starts[idx[j]])])

\* C2: in unconditional mode, for every audio_len >= 1 and every clip of at
\* least audio_len samples, the offset s is in [0, len - audio_len] and the
\* record's audio becomes the window [s, s + audio_len), of length audio_len.
C2_UnconditionalWindow ==
    (op = "collate" /\ cfg.datamodule.params.unconditional) =>
        \A i \in 1..Len(args.minibatch) :
            ~IsShort(args.minibatch[i]) =>
                /\ args.starts[i] \in
                      0..(Samples(args.minibatch[i]) - cfg.datamodule.params.audio_len)
                /\ minibatch[i].audio =
                      Tensor(<<cfg.datamodule.params.audio_len>>,
                             ExpectedAudio(args.minibatch[i], args.starts[i]))

\* C3: in conditional mode, for every record with at least crop_mel_frames
\* frames and audio of any length, the frame offset s is in
\* [0, frames - crop_mel_frames], the spectrogram becomes frames
\* [s, s + crop_mel_frames), and the audio becomes the crop_mel_frames *
\* hop_samples samples from s * hop_samples on, zero-padded on the right.
C3_ConditionalWindow ==
    (op = "collate" /\ ~cfg.datamodule.params.unconditional) =>
        \A i \in 1..Len(args.minibatch) :
            ~IsShort(args.minibatch[i]) =>
                /\ args.starts[i] \in
                      0..(Frames(args.minibatch[i])
                            - cfg.datamodule.params.crop_mel_frames)
                /\ minibatch[i].spectrogram.data = ExpectedFrames(args.starts[i])
                /\ minibatch[i].audio =
                      Tensor(<<cfg.datamodule.params.crop_mel_frames
                                 * cfg.datamodule.preprocessing.hop_samples>>,
                             ExpectedAudio(args.minibatch[i], args.starts[i]))

\* C4: a collate call in which no record has the required length (an empty
\* minibatch included) raises EmptyBatchError, and nothing else.
C4_EmptyBatchError ==
    (op = "collate" /\ Survivors(args.minibatch) = <<>>) =>
        /\ result.status = "raised"
        /\ result.error = "EmptyBatchError"

---------------------------------------------------------------------------
(* What the specification says of a sampling call *)

\* A call forward(x) as the specification describes it: x carries the keys
\* forward reads, and a spectrogram when the model is conditional.
SamplingCall ==
    /\ op = "forward"
    /\ HasKey(args.x, "lang")
    /\ (cfg.model.params.unconditional \/ args.x.spectrogram.type = "Tensor")

ScheduleLen == Len(model.noise_schedule)

\* No inference schedule, or one identical to the native schedule.
NativeSchedule ==
    \/ cfg.inference_noise.type = "NoneType"
    \/ cfg.inference_noise = List(model.noise_schedule)

\* M: the number of inference steps.
InferenceSteps ==
    IF NativeSchedule THEN ScheduleLen ELSE Len(cfg.inference_noise.data)

\* The plainest sampling call: a conditional model, no inference schedule,
\* so that T is the identity and M = S.
PlainSamplingCall ==
    /\ SamplingCall
    /\ ~cfg.model.params.unconditional
    /\ cfg.inference_noise.type = "NoneType"

\* C5: a sampling call ends by returning the audio after exactly M
\* iterations, n = M-1, ..., 0, each with exactly one call of the denoiser,
\* at timestep T[n]; stated for the calls with no inference schedule, where
\* T = [0..S-1] and M = S.
C5_ReturnsAfterMIterations ==
    PlainSamplingCall =>
        /\ result.status = "returned"
        /\ result.iterations = InferenceSteps
        /\ result.denoiser_calls = [j \in 1..ScheduleLen |-> ScheduleLen - j]

\* C6: noise is drawn in iteration n exactly when n > 0, so a sampling call
\* of M steps draws noise exactly M - 1 times (none when M = 1); stated for
\* the calls with no inference schedule, where M = S.
C6_NoiseDrawnMMinusOneTimes ==
    PlainSamplingCall => result.noise_draws = InferenceSteps - 1

\* C8: a sampling call under an inference schedule identical to the native
\* schedule ends exactly as the same call under no inference schedule
\* does: the same T, the same calls, the same result.
C8_IdenticalScheduleSameBehaviour ==
    (SamplingCall /\ cfg.inference_noise = List(model.noise_schedule)) =>
        result = forward(args.x, [cfg EXCEPT !.inference_noise = None], model)

\* The batch dimension the specification gives the initial audio.
SpecBatch(spectrogram) ==
    IF Len(spectrogram.dims) = 2 THEN 1 ELSE spectrogram.dims[1]

\* C9: a sampling call that gets to its loop (one with no inference
\* schedule: with one, the call ends on line 38) has initialised audio to
\* Gaussian noise before the first iteration, in both modes, of shape
\* [batch, hop_samples * num_frames] in conditional mode, and the loop never
\* reads audio before that.
C9_AudioInitialised ==
    (SamplingCall /\ cfg.inference_noise.type = "NoneType") =>
        /\ result.audio_init.type = "Tensor"
        /\ result.audio_init.data = "gaussian"
        /\ result.error # "UnboundLocalError"
        /\ (~cfg.model.params.unconditional =>
              result.audio_init.dims =
                 <<SpecBatch(args.x.spectrogram),
                   cfg.model.params.hop_samples
                     * args.x.spectrogram.dims[Len(args.x.spectrogram.dims)]>>)

---------------------------------------------------------------------------
(* What the specification says of a training, validation or test step *)

StepCall == op \in {"training_step", "validation_step", "test_step"}

\* C10: a training, validation or test step on a batch of N examples under
\* a schedule of S steps samples exactly N timesteps, each in [0, S), reads
\* the noise level of example i at index t_i of the table, inside the table,
\* and calls the denoiser exactly once, with the noisy audio, those
\* timesteps and the batch's spectrogram (or None).
C10_TimestepsInRange ==
    StepCall =>
        LET N == args.batch.audio.dims[1]
        IN  /\ result.status = "returned"
            /\ Len(result.t) = N
            /\ \A i \in 1..N : 0 <= result.t[i] /\ result.t[i] < ScheduleLen
            /\ result.lookups = result.t
            /\ \A i \in 1..N : result.lookups[i] < Len(model.noise_level)
            /\ Len(result.denoiser_calls) = 1
            /\ result.denoiser_calls[1].t = result.t
            /\ result.denoiser_calls[1].spectrogram = args.batch.spectrogram
            /\ result.denoiser_calls[1].audio.dims = args.batch.audio.dims

\* A training step on two examples that drew the first and the last step
\* of a schedule of more than one step.
C10_Witness ==
    /\ op = "training_step"
    /\ ScheduleLen > 1
    /\ args.batch.audio.dims[1] = 2
    /\ result.status = "returned"
    /\ result.t[1] = 0
    /\ result.t[2] = ScheduleLen - 1
    /\ Len(result.denoiser_calls) = 1

===========================================================================
